---- MODULE Spec2Model ----
(***************************************************************************)
(* Model of drt-chain-storage-go, package storageUnit.                     *)
(*                                                                         *)
(* Spec        : a Unit (cacher + persister + RWMutex) shared by two       *)
(*               goroutines.  Each call a Unit method makes on the cacher  *)
(*               or the persister is one atomic step; taking the lock is   *)
(*               part of the method's first step, releasing it part of     *)
(*               its return.  The cacher is a count-bounded LRU, the       *)
(*               persister a key-value map whose calls may fail.           *)
(* SpecNew     : the constructors NewStorageUnitFromConf / NewCache /      *)
(*               NewDB / NewStorageUnit, one call on arbitrary arguments.  *)
(* SpecNewFair : SpecNew, the call running until it returns.               *)
(* SpecSeq     : one goroutine calling the Unit's methods one after the    *)
(*               other, the state each call started in being kept.         *)
(* SpecLRU     : SpecSeq's Put and Get on a cache of capacity N over N + 1 *)
(*               keys.                                                     *)
(* SpecTime    : the expiring time cache under a clock.                    *)
(* SpecPeer    : the peer time cache over the tests' time cache stub.      *)
(* SpecBulk    : GetBulkFromEpoch in one goroutine, Put and Remove in      *)
(*               another.                                                  *)
(***************************************************************************)
EXTENDS Integers, Sequences, FiniteSets, TLC

\* ---------------------------------------------------------------- bounds
NumKeys == 2
NumValues == 2
\* capacity of the count-bounded LRU cache the modelled Unit is built on
CacheCapacity == 1

\* two goroutines share the Unit
Threads == {1, 2}
Keys == 1..NumKeys
Values == 1..NumValues

\* the nil []byte / nil key
Nil == 0
\* the nil error
NoErr == "nil"
\* errors of the persister (external collaborator)
ErrIO == "ErrIO"
ErrKeyNotFound == "ErrKeyNotFound"
ErrDBIsClosed == "ErrDBIsClosed"

VARIABLES
    cache,      \* Unit.cacher: sequence of [key, val], least recently used first
    db,         \* Unit.persister contents: key -> value, Nil when absent
    dbOpen,     \* Unit.persister is open (not closed, not destroyed)
    lockW,      \* Unit.lock: the goroutine holding it exclusively, Nil if none
    lockR,      \* Unit.lock: the goroutines holding it shared
    th,         \* per goroutine: position and locals of the method it runs
    watch,      \* history: the key the history variables below are about (any key)
    stable,     \* history: value of a successful Put(watch, _) not disturbed since
    rolledBack, \* history: the last cache event for watch is a failed Put's return
    follow      \* history: "yes" after a successful Get(watch) with nothing invoked since

unitVars == <<cache, db, dbOpen, lockW, lockR, th, watch, stable, rolledBack, follow>>

\* the constructors (specification SpecNew)
VARIABLES
    npc,        \* position in the constructor being run
    entry,      \* the constructor the caller invoked
    conf,       \* its arguments: CacheConfig, DBConfig, nil-ness of the handles
    i,          \* NewDB: the loop counter
    cacher,     \* the cacher built so far (FALSE: nil)
    ndb,        \* NewDB: db, the persister of Create call n (0: nil)
    nerr,       \* the local err
    ret,        \* what the invoked constructor returned
    creates,    \* history: calls of persisterFactory.Create
    sleeps,     \* history: calls of time.Sleep(SleepTimeBetweenCreateDBRetries)
    monitored,  \* history: calls of monitoring.MonitorNewCache
    firstOK     \* history: number of the first Create call that succeeded (0: none)

newVars == <<npc, entry, conf, i, cacher, ndb, nerr, ret, creates, sleeps, monitored, firstOK>>

\* one goroutine calling the Unit's methods one after the other
\* (specification SpecSeq)
VARIABLES
    call,       \* the call the caller makes: method, arguments, phase
    pre,        \* history: cache and persister as they were when the call was made
    out,        \* what the last completed call returned
    gone,       \* history: keys whose Remove returned nil, no successful Put since
    trail       \* history: the keys put so far while the run is only Puts of new keys

seqVars == <<call, pre, out, gone, trail>>

\* the expiring time cache (specification SpecTime)
VARIABLES
    tc,         \* the tracked keys: key -> [ts, ttl] of its entry, NoEntry if none
    clock,      \* the clock source: the current time
    ups,        \* history: key -> time and ttl of its last Upsert, NoEntry if none
    top,        \* history: the last operation, its arguments and its result
    told        \* history: tc as it was before the last operation

timeVars == <<tc, clock, ups, top, told>>

\* the peer time cache over a time cache stub (specification SpecPeer)
VARIABLES
    ptc,        \* what NewPeerTimeCache returned: "none" before, "nil", "built"
    pflags,     \* the test's updateWasCalled, hasWasCalled, sweepWasCalled
    pcall,      \* the last call made on the peer time cache and its arguments
    plog,       \* history: the calls the wrapped time cache received during pcall
    pout        \* what the last call returned

peerVars == <<ptc, pflags, pcall, plog, pout>>

\* one goroutine running GetBulkFromEpoch (specification SpecBulk)
VARIABLES
    bulk        \* keys: the argument; idx: the loop's position in it;
                \* results: the local results; got: history, what each
                \* u.Get returned; phase: where the call is; err: its error;
                \* others: the calls the other goroutine has made

bulkVars == <<bulk>>

auxVars == <<seqVars, timeVars, peerVars, bulkVars>>

\* all variables but those of the sequential caller / of the time cache /
\* of the peer time cache
notSeq == <<unitVars, newVars, timeVars, peerVars, bulkVars>>
notTime == <<unitVars, newVars, seqVars, peerVars, bulkVars>>
notPeer == <<unitVars, newVars, seqVars, timeVars, bulkVars>>

vars == <<unitVars, newVars, auxVars>>

\* ------------------------------------------------- cacher (count-bounded LRU)
RECURSIVE CacheIndex(_, _)
\* position of key k in c, 0 when absent
CacheIndex(c, k) ==
    IF c = <<>> THEN 0
    ELSE IF c[Len(c)].key = k THEN Len(c)
    ELSE CacheIndex(SubSeq(c, 1, Len(c) - 1), k)

CacheHas(c, k) == CacheIndex(c, k) # 0

CachePeek(c, k) == IF CacheHas(c, k) THEN c[CacheIndex(c, k)].val ELSE Nil

CacheRemove(c, k) == SelectSeq(c, LAMBDA e : e.key # k)

\* Cacher.Put: insert or overwrite as most recently used, evict the least
\* recently used entry when the count bound, CacheConfig.Capacity of the
\* configuration the Unit was built from, is exceeded
CachePut(c, k, v) ==
    LET added == Append(CacheRemove(c, k), [key |-> k, val |-> v])
    IN  IF Len(added) > conf.capacity THEN Tail(added) ELSE added

\* Cacher.Get: a hit promotes the entry to most recently used
CacheGet(c, k) ==
    IF CacheHas(c, k)
    THEN Append(CacheRemove(c, k), [key |-> k, val |-> CachePeek(c, k)])
    ELSE c

CacheClear == <<>>

\* ---------------------------------------------------------------- persister
\* error a persister call reports when it does not fail on its own (fault)
PersisterLookupErr(k) ==
    IF ~dbOpen THEN ErrDBIsClosed
    ELSE IF db[k] = Nil THEN ErrKeyNotFound
    ELSE NoErr

PersisterWriteErr == IF ~dbOpen THEN ErrDBIsClosed ELSE NoErr

\* ------------------------------------------------------------ goroutines
\* pc "idle": the goroutine runs no Unit method, or waits for Unit.lock;
\* any other pc names the statement the goroutine executes next
Idle == [pc |-> "idle", key |-> Nil, data |-> Nil, v |-> Nil, ok |-> FALSE, err |-> NoErr]

At(t, p) == th[t].pc = p

\* the method a goroutine is running, from its position
OpOf(p) ==
    CASE p \in {"Put_PersisterPut", "Put_CacherRemove", "Put_Return"} -> "Put"
      [] p \in {"Get_PersisterGet", "Get_CacherPut", "Get_Return"} -> "Get"
      [] p \in {"Has_PersisterHas", "Has_Return"} -> "Has"
      [] p \in {"Remove_PersisterRemove", "Remove_Return"} -> "Remove"
      [] p \in {"Close_PersisterClose", "Close_Return"} -> "Close"
      [] p \in {"DestroyUnit_PersisterDestroy", "DestroyUnit_Return"} -> "DestroyUnit"
      [] OTHER -> "none"

\* a running op that ends the guarantee a successful Put(k, _) gives for k
Disturbs(op, key, k) ==
    \/ op \in {"Put", "Remove"} /\ key = k
    \/ op \in {"Close", "DestroyUnit"}

OthersIdle(t) == \A u \in Threads \ {t} : At(u, "idle")

\* no other goroutine is inside an op that disturbs key k
Undisturbed(t, k) ==
    \A u \in Threads \ {t} : ~Disturbs(OpOf(th[u].pc), th[u].key, k)

\* history value: a Put of the key is under way and undisturbed so far
Pending == -1

\* history kept when goroutine t starts method op on key k:
\* stable ends with every op that disturbs watch and is Pending during a
\* Put(watch, _) that no disturbing op overlaps;
\* follow is "yes" after a successful Get(watch), "running" while a
\* Get(watch) not preceded by one is under way, and "no" as soon as anything
\* else is invoked
Invoke(t, op, k) ==
    /\ stable' = IF op = "Put" /\ k = watch /\ Undisturbed(t, watch) THEN Pending
                 ELSE IF Disturbs(op, k, watch) THEN Nil
                 ELSE stable
    /\ follow' = IF op = "Get" /\ k = watch
                 THEN (IF follow = "yes" THEN "yes" ELSE "running")
                 ELSE "no"
    /\ watch' = watch

\* sync.RWMutex
CanLock == lockW = Nil /\ lockR = {}
CanRLock == lockW = Nil

\* -------------------------------------------------------------- Unit.Put
\* Put that writes the persister only
Put_CacherPut_PersisterOnly(t, k, d) ==
    /\ At(t, "idle") /\ CanLock
    /\ lockW' = t
    /\ th' = [th EXCEPT ![t] = [Idle EXCEPT !.pc = "Put_PersisterPut", !.key = k, !.data = d]]
    /\ Invoke(t, "Put", k)
    /\ UNCHANGED <<newVars, auxVars, cache, db, dbOpen, lockR, rolledBack>>

\* Lock and cacher.Put in one step: between them another goroutine can only
\* run steps that take no lock, and those commute with taking the lock
Put_CacherPut(t, k, d) ==
    /\ At(t, "idle") /\ CanLock
    /\ lockW' = t
    /\ cache' = CachePut(cache, k, d)
    /\ rolledBack' = (rolledBack /\ k # watch)
    /\ th' = [th EXCEPT ![t] = [Idle EXCEPT !.pc = "Put_PersisterPut", !.key = k, !.data = d]]
    /\ Invoke(t, "Put", k)
    /\ UNCHANGED <<newVars, auxVars, db, dbOpen, lockR>>

\* Put that drops the persister's error: reports success without a durable write
Put_PersisterPut_ErrDropped(t) ==
    /\ At(t, "Put_PersisterPut")
    /\ \E fault \in BOOLEAN :
         LET e == IF fault THEN ErrIO ELSE PersisterWriteErr
         IN  /\ db' = IF e = NoErr THEN [db EXCEPT ![th[t].key] = th[t].data] ELSE db
             /\ th' = [th EXCEPT ![t].pc = "Put_Return"]
    /\ UNCHANGED <<newVars, auxVars, watch, cache, dbOpen, lockW, lockR, stable, rolledBack, follow>>

Put_PersisterPut(t) ==
    /\ At(t, "Put_PersisterPut")
    /\ \E fault \in BOOLEAN :
         LET e == IF fault THEN ErrIO ELSE PersisterWriteErr
         IN  /\ db' = IF e = NoErr THEN [db EXCEPT ![th[t].key] = th[t].data] ELSE db
             /\ th' = [th EXCEPT ![t].err = e,
                                 ![t].pc = IF e # NoErr THEN "Put_CacherRemove" ELSE "Put_Return"]
    /\ UNCHANGED <<newVars, auxVars, watch, cache, dbOpen, lockW, lockR, stable, rolledBack, follow>>

\* Put whose rollback forgets cacher.Remove
Put_CacherRemove_NoRollback(t) ==
    /\ At(t, "Put_CacherRemove")
    /\ th' = [th EXCEPT ![t].pc = "Put_Return"]
    /\ UNCHANGED <<newVars, auxVars, watch, cache, db, dbOpen, lockW, lockR, stable, rolledBack, follow>>

Put_CacherRemove(t) ==
    /\ At(t, "Put_CacherRemove")
    /\ cache' = CacheRemove(cache, th[t].key)
    /\ th' = [th EXCEPT ![t].pc = "Put_Return"]
    /\ UNCHANGED <<newVars, auxVars, watch, db, dbOpen, lockW, lockR, stable, rolledBack, follow>>

Put_Return(t) ==
    /\ At(t, "Put_Return")
    /\ lockW' = Nil
    /\ stable' = IF th[t].key # watch \/ stable # Pending THEN stable
                 ELSE IF th[t].err = NoErr /\ Undisturbed(t, watch) THEN th[t].data
                 ELSE Nil
    /\ rolledBack' = (rolledBack \/ (th[t].err # NoErr /\ th[t].key = watch))
    /\ th' = [th EXCEPT ![t] = Idle]
    /\ UNCHANGED <<newVars, auxVars, watch, cache, db, dbOpen, lockR, follow>>

\* -------------------------------------------------------------- Unit.Get
\* Lock and cacher.Get in one step
Get_CacherGet(t, k) ==
    /\ At(t, "idle") /\ CanLock
    /\ lockW' = t
    /\ cache' = CacheGet(cache, k)
    /\ th' = [th EXCEPT ![t] = [Idle EXCEPT !.key = k,
                                           !.v = CachePeek(cache, k),
                                           !.ok = CacheHas(cache, k),
                                           !.pc = IF CacheHas(cache, k)
                                                  THEN "Get_Return" ELSE "Get_PersisterGet"]]
    /\ Invoke(t, "Get", k)
    /\ UNCHANGED <<newVars, auxVars, db, dbOpen, lockR, rolledBack>>

Get_PersisterGet(t) ==
    /\ At(t, "Get_PersisterGet")
    /\ \E fault \in BOOLEAN :
         LET e == IF fault THEN ErrIO ELSE PersisterLookupErr(th[t].key)
         IN  th' = [th EXCEPT ![t].err = e,
                             ![t].v = IF e = NoErr THEN db[th[t].key] ELSE Nil,
                             ![t].pc = IF e # NoErr THEN "Get_Return" ELSE "Get_CacherPut"]
    /\ UNCHANGED <<newVars, auxVars, watch, cache, db, dbOpen, lockW, lockR, stable, rolledBack, follow>>

\* Get that returns the persisted value without back-filling the cache
Get_CacherPut_NoBackfill(t) ==
    /\ At(t, "Get_CacherPut")
    /\ th' = [th EXCEPT ![t].pc = "Get_Return"]
    /\ UNCHANGED <<newVars, auxVars, watch, cache, db, dbOpen, lockW, lockR, stable, rolledBack, follow>>

Get_CacherPut(t) ==
    /\ At(t, "Get_CacherPut")
    /\ cache' = CachePut(cache, th[t].key, th[t].v)
    /\ rolledBack' = (rolledBack /\ th[t].key # watch)
    /\ th' = [th EXCEPT ![t].pc = "Get_Return"]
    /\ UNCHANGED <<newVars, auxVars, watch, db, dbOpen, lockW, lockR, stable, follow>>

Get_Return(t) ==
    /\ At(t, "Get_Return")
    /\ lockW' = Nil
    /\ follow' = IF /\ th[t].err = NoErr /\ th[t].key = watch
                    /\ OthersIdle(t) /\ follow \in {"running", "yes"}
                 THEN "yes" ELSE "no"
    /\ th' = [th EXCEPT ![t] = Idle]
    /\ UNCHANGED <<newVars, auxVars, watch, cache, db, dbOpen, lockR, stable, rolledBack>>

\* -------------------------------------------------------------- Unit.Has
\* Has that does not wait for the writer (no RLock)
Has_CacherHas_NoLock(t, k) ==
    /\ At(t, "idle")
    /\ lockR' = lockR \cup {t}
    /\ th' = [th EXCEPT ![t] = [Idle EXCEPT !.key = k,
                                           !.ok = CacheHas(cache, k),
                                           !.pc = IF CacheHas(cache, k)
                                                  THEN "Has_Return" ELSE "Has_PersisterHas"]]
    /\ Invoke(t, "Has", k)
    /\ UNCHANGED <<newVars, auxVars, cache, db, dbOpen, lockW, rolledBack>>

\* RLock and cacher.Has in one step
Has_CacherHas(t, k) ==
    /\ At(t, "idle") /\ CanRLock
    /\ lockR' = lockR \cup {t}
    /\ th' = [th EXCEPT ![t] = [Idle EXCEPT !.key = k,
                                           !.ok = CacheHas(cache, k),
                                           !.pc = IF CacheHas(cache, k)
                                                  THEN "Has_Return" ELSE "Has_PersisterHas"]]
    /\ Invoke(t, "Has", k)
    /\ UNCHANGED <<newVars, auxVars, cache, db, dbOpen, lockW, rolledBack>>

\* Has that back-fills the cache the way Get does
Has_PersisterHas_Backfill(t) ==
    /\ At(t, "Has_PersisterHas")
    /\ \E fault \in BOOLEAN :
         LET e == IF fault THEN ErrIO ELSE PersisterLookupErr(th[t].key)
         IN  /\ th' = [th EXCEPT ![t].err = e, ![t].pc = "Has_Return"]
             /\ cache' = IF e = NoErr THEN CachePut(cache, th[t].key, db[th[t].key]) ELSE cache
    /\ UNCHANGED <<newVars, auxVars, watch, db, dbOpen, lockW, lockR, stable, rolledBack, follow>>

Has_PersisterHas(t) ==
    /\ At(t, "Has_PersisterHas")
    /\ \E fault \in BOOLEAN :
         th' = [th EXCEPT ![t].err = IF fault THEN ErrIO ELSE PersisterLookupErr(th[t].key),
                         ![t].pc = "Has_Return"]
    /\ UNCHANGED <<newVars, auxVars, watch, cache, db, dbOpen, lockW, lockR, stable, rolledBack, follow>>

Has_Return(t) ==
    /\ At(t, "Has_Return")
    /\ lockR' = lockR \ {t}
    /\ th' = [th EXCEPT ![t] = Idle]
    /\ UNCHANGED <<newVars, auxVars, watch, cache, db, dbOpen, lockW, stable, rolledBack, follow>>

\* ----------------------------------------------------------- Unit.Remove
\* Remove that deletes from the persister only
Remove_CacherRemove_Skipped(t, k) ==
    /\ At(t, "idle") /\ CanLock
    /\ lockW' = t
    /\ th' = [th EXCEPT ![t] = [Idle EXCEPT !.pc = "Remove_PersisterRemove", !.key = k]]
    /\ Invoke(t, "Remove", k)
    /\ UNCHANGED <<newVars, auxVars, cache, db, dbOpen, lockR, rolledBack>>

\* Lock and cacher.Remove in one step
Remove_CacherRemove(t, k) ==
    /\ At(t, "idle") /\ CanLock
    /\ lockW' = t
    /\ cache' = CacheRemove(cache, k)
    /\ th' = [th EXCEPT ![t] = [Idle EXCEPT !.pc = "Remove_PersisterRemove", !.key = k]]
    /\ Invoke(t, "Remove", k)
    /\ UNCHANGED <<newVars, auxVars, db, dbOpen, lockR, rolledBack>>

\* Remove that drops the persister's error
Remove_PersisterRemove_ErrDropped(t) ==
    /\ At(t, "Remove_PersisterRemove")
    /\ \E fault \in BOOLEAN :
         LET e == IF fault THEN ErrIO ELSE PersisterWriteErr
         IN  /\ db' = IF e = NoErr THEN [db EXCEPT ![th[t].key] = Nil] ELSE db
             /\ th' = [th EXCEPT ![t].pc = "Remove_Return"]
    /\ UNCHANGED <<newVars, auxVars, watch, cache, dbOpen, lockW, lockR, stable, rolledBack, follow>>

Remove_PersisterRemove(t) ==
    /\ At(t, "Remove_PersisterRemove")
    /\ \E fault \in BOOLEAN :
         LET e == IF fault THEN ErrIO ELSE PersisterWriteErr
         IN  /\ db' = IF e = NoErr THEN [db EXCEPT ![th[t].key] = Nil] ELSE db
             /\ th' = [th EXCEPT ![t].err = e, ![t].pc = "Remove_Return"]
    /\ UNCHANGED <<newVars, auxVars, watch, cache, dbOpen, lockW, lockR, stable, rolledBack, follow>>

Remove_Return(t) ==
    /\ At(t, "Remove_Return")
    /\ lockW' = Nil
    /\ th' = [th EXCEPT ![t] = Idle]
    /\ UNCHANGED <<newVars, auxVars, watch, cache, db, dbOpen, lockR, stable, rolledBack, follow>>

\* ------------------------------------------------------- Unit.ClearCache
\* takes no lock: one call of cacher.Clear
ClearCache(t) ==
    /\ At(t, "idle")
    /\ cache' = CacheClear
    /\ Invoke(t, "ClearCache", Nil)
    /\ UNCHANGED <<newVars, auxVars, db, dbOpen, lockW, lockR, th, rolledBack>>

\* ------------------------------------------------------------ Unit.Close
\* takes no lock
Close_CacherClear(t) ==
    /\ At(t, "idle")
    /\ cache' = CacheClear
    /\ th' = [th EXCEPT ![t] = [Idle EXCEPT !.pc = "Close_PersisterClose"]]
    /\ Invoke(t, "Close", Nil)
    /\ UNCHANGED <<newVars, auxVars, db, dbOpen, lockW, lockR, rolledBack>>

Close_PersisterClose(t) ==
    /\ At(t, "Close_PersisterClose")
    /\ \E fault \in BOOLEAN :
         /\ dbOpen' = IF fault THEN dbOpen ELSE FALSE
         /\ th' = [th EXCEPT ![t].err = IF fault THEN ErrIO ELSE NoErr,
                             ![t].pc = "Close_Return"]
    /\ UNCHANGED <<newVars, auxVars, watch, cache, db, lockW, lockR, stable, rolledBack, follow>>

Close_Return(t) ==
    /\ At(t, "Close_Return")
    /\ th' = [th EXCEPT ![t] = Idle]
    /\ UNCHANGED <<newVars, auxVars, watch, cache, db, dbOpen, lockW, lockR, stable, rolledBack, follow>>

\* -------------------------------------------------------- Unit.RangeKeys
\* takes no lock: one call of persister.RangeKeys, which reads the persister
\* and changes neither the cache nor the persister
RangeKeys(t) ==
    /\ At(t, "idle")
    /\ Invoke(t, "RangeKeys", Nil)
    /\ UNCHANGED <<newVars, auxVars, cache, db, dbOpen, lockW, lockR, th, rolledBack>>

\* ------------------------------------------------------ Unit.DestroyUnit
\* Lock and cacher.Clear in one step
DestroyUnit_CacherClear(t) ==
    /\ At(t, "idle") /\ CanLock
    /\ lockW' = t
    /\ cache' = CacheClear
    /\ th' = [th EXCEPT ![t] = [Idle EXCEPT !.pc = "DestroyUnit_PersisterDestroy"]]
    /\ Invoke(t, "DestroyUnit", Nil)
    /\ UNCHANGED <<newVars, auxVars, db, dbOpen, lockR, rolledBack>>

DestroyUnit_PersisterDestroy(t) ==
    /\ At(t, "DestroyUnit_PersisterDestroy")
    /\ \E fault \in BOOLEAN :
         /\ db' = IF fault THEN db ELSE [k \in DOMAIN db |-> Nil]
         /\ dbOpen' = IF fault THEN dbOpen ELSE FALSE
         /\ th' = [th EXCEPT ![t].err = IF fault THEN ErrIO ELSE NoErr,
                             ![t].pc = "DestroyUnit_Return"]
    /\ UNCHANGED <<newVars, auxVars, watch, cache, lockW, lockR, stable, rolledBack, follow>>

DestroyUnit_Return(t) ==
    /\ At(t, "DestroyUnit_Return")
    /\ lockW' = Nil
    /\ th' = [th EXCEPT ![t] = Idle]
    /\ UNCHANGED <<newVars, auxVars, watch, cache, db, dbOpen, lockR, stable, rolledBack, follow>>

\* ------------------------------------------------- the expiring time cache
\* largest ttl tried and last instant of the clock
MaxTTL == 2
MaxClock == 2
TTLs == 0..MaxTTL

NoEntry == [ts |-> -1, ttl |-> -1]
NoOp == [op |-> "none", key |-> Nil, ttl |-> 0, res |-> FALSE]

\* an entry is expired once now - lastRefresh >= TTL
Expired(e, now) == e # NoEntry /\ now - e.ts >= e.ttl
Live(e, now) == e # NoEntry /\ now - e.ts < e.ttl

\* values of the time cache's variables while SpecTime is not the specification
TimeNotRun ==
    /\ tc = [k \in Keys |-> NoEntry]
    /\ clock = 0
    /\ ups = [k \in Keys |-> NoEntry]
    /\ top = NoOp
    /\ told = [k \in Keys |-> NoEntry]

\* Upsert that keeps the timestamp of an entry it refreshes
TimeCache_Upsert_KeepsTimestamp(k, ttl) ==
    /\ tc' = [tc EXCEPT ![k] = [ts |-> IF tc[k] = NoEntry THEN clock ELSE tc[k].ts,
                                 ttl |-> ttl]]
    /\ ups' = [ups EXCEPT ![k] = [ts |-> clock, ttl |-> ttl]]
    /\ top' = [op |-> "Upsert", key |-> k, ttl |-> ttl, res |-> TRUE]
    /\ told' = tc
    /\ UNCHANGED <<notTime, clock>>

\* Upsert(key, ttl): records or refreshes the key's timestamp and its ttl
TimeCache_Upsert(k, ttl) ==
    /\ tc' = [tc EXCEPT ![k] = [ts |-> clock, ttl |-> ttl]]
    /\ ups' = [ups EXCEPT ![k] = [ts |-> clock, ttl |-> ttl]]
    /\ top' = [op |-> "Upsert", key |-> k, ttl |-> ttl, res |-> TRUE]
    /\ told' = tc
    /\ UNCHANGED <<notTime, clock>>

\* Has(key): true iff live; an expired entry the lookup observes may be
\* removed (lazy eviction) or left for Sweep
TimeCache_Has(k) ==
    /\ \E lazy \in BOOLEAN :
         tc' = IF lazy /\ Expired(tc[k], clock) THEN [tc EXCEPT ![k] = NoEntry] ELSE tc
    /\ top' = [op |-> "Has", key |-> k, ttl |-> 0, res |-> Live(tc[k], clock)]
    /\ told' = tc
    /\ UNCHANGED <<notTime, clock, ups>>

\* Sweep(): removes every expired key
TimeCache_Sweep ==
    /\ tc' = [k \in Keys |-> IF Expired(tc[k], clock) THEN NoEntry ELSE tc[k]]
    /\ top' = [op |-> "Sweep", key |-> Nil, ttl |-> 0, res |-> FALSE]
    /\ told' = tc
    /\ UNCHANGED <<notTime, clock, ups>>

\* the clock source advances
ClockTick ==
    /\ clock < MaxClock
    /\ clock' = clock + 1
    /\ top' = [op |-> "Tick", key |-> Nil, ttl |-> 0, res |-> FALSE]
    /\ told' = tc
    /\ UNCHANGED <<notTime, tc, ups>>

\* ------------------------------------------------- the peer time cache
\* core.PeerID is a string type; string(pid) yields its bytes
PeerID(bytes) == [peerID |-> bytes]
String(pid) == pid.peerID
\* pid := core.PeerID("test peer id"), and two other peers
TestPid == PeerID("test peer id")
PeerIDs == {TestPid, PeerID("other peer id"), PeerID("")}
\* the spans tried: time.Second and twice that
Spans == {1, 2}
ErrNilTimeCache == "ErrNilTimeCache"
unexpectedErr == "unexpected error"

\* the number of calls followed on the peer time cache
MaxPeerCalls == 3

PeerCall(m, pid, span, tcNil) == [m |-> m, pid |-> pid, span |-> span, tcNil |-> tcNil]
NoPeer == PeerID("no peer")

\* the closures of the test's TimeCacheStub: what each returns
UpsertCalled(key, span) == IF key # String(TestPid) THEN unexpectedErr ELSE "nil"
HasCalled(key) == IF key # String(TestPid) THEN "false" ELSE "true"

\* values of the peer time cache's variables while SpecPeer is not the
\* specification
PeerNotRun ==
    /\ ptc = "none"
    /\ pflags = [updateWasCalled |-> FALSE, hasWasCalled |-> FALSE, sweepWasCalled |-> FALSE]
    /\ pcall = <<>>
    /\ plog = <<>>
    /\ pout = "none"

NewPeerTimeCache(tcNil) ==
    /\ Len(pcall) < MaxPeerCalls
    /\ pcall' = Append(pcall, PeerCall("NewPeerTimeCache", NoPeer, 0, tcNil))
    /\ ptc' = IF tcNil THEN "nil" ELSE "built"
    /\ pout' = IF tcNil THEN ErrNilTimeCache ELSE "nil"
    /\ UNCHANGED <<notPeer, pflags, plog>>

\* Upsert that hands on no error of the wrapped cache
PeerTimeCache_Upsert_ErrDropped(pid, span) ==
    /\ ptc = "built"
    /\ Len(pcall) < MaxPeerCalls
    /\ pcall' = Append(pcall, PeerCall("Upsert", pid, span, FALSE))
    /\ LET key == String(pid)
           r == UpsertCalled(key, span)
       IN  /\ plog' = Append(plog, [m |-> "Upsert", key |-> key, span |-> span, r |-> r])
           /\ pflags' = IF r = "nil" THEN [pflags EXCEPT !.updateWasCalled = TRUE] ELSE pflags
           /\ pout' = "nil"
    /\ UNCHANGED <<notPeer, ptc>>

\* Upsert(pid, span): timeCache.Upsert(string(pid), span)
PeerTimeCache_Upsert(pid, span) ==
    /\ ptc = "built"
    /\ Len(pcall) < MaxPeerCalls
    /\ pcall' = Append(pcall, PeerCall("Upsert", pid, span, FALSE))
    /\ LET key == String(pid)
           r == UpsertCalled(key, span)
       IN  /\ plog' = Append(plog, [m |-> "Upsert", key |-> key, span |-> span, r |-> r])
           /\ pflags' = IF r = "nil" THEN [pflags EXCEPT !.updateWasCalled = TRUE] ELSE pflags
           /\ pout' = r
    /\ UNCHANGED <<notPeer, ptc>>

\* Has(pid): timeCache.Has(string(pid))
PeerTimeCache_Has(pid) ==
    /\ ptc = "built"
    /\ Len(pcall) < MaxPeerCalls
    /\ pcall' = Append(pcall, PeerCall("Has", pid, 0, FALSE))
    /\ LET key == String(pid)
           r == HasCalled(key)
       IN  /\ plog' = Append(plog, [m |-> "Has", key |-> key, span |-> 0, r |-> r])
           /\ pflags' = IF r = "true" THEN [pflags EXCEPT !.hasWasCalled = TRUE] ELSE pflags
           /\ pout' = r
    /\ UNCHANGED <<notPeer, ptc>>

\* Sweep(): timeCache.Sweep()
PeerTimeCache_Sweep ==
    /\ ptc = "built"
    /\ Len(pcall) < MaxPeerCalls
    /\ pcall' = Append(pcall, PeerCall("Sweep", NoPeer, 0, FALSE))
    /\ plog' = Append(plog, [m |-> "Sweep", key |-> "", span |-> 0, r |-> "none"])
    /\ pflags' = [pflags EXCEPT !.sweepWasCalled = TRUE]
    /\ pout' = "none"
    /\ UNCHANGED <<notPeer, ptc>>

\* ------------------------------------------------- the sequential caller
\* the goroutine that makes the calls
Caller == 1
\* the epoch arguments tried
Epochs == {0, 7}
ErrOldestEpochNotAvailable == "ErrOldestEpochNotAvailable"

\* methods that take a key / a value / an epoch
KeyOps == {"Put", "Get", "Has", "Remove", "PutInEpoch", "GetFromEpoch",
           "SearchFirst", "RemoveFromCurrentEpoch"}
DataOps == {"Put", "PutInEpoch"}
EpochOps == {"PutInEpoch", "GetFromEpoch"}
\* methods that are one call on the cacher and return nothing
OneStepOps == {"ClearCache"}
SeqOps == KeyOps \cup OneStepOps \cup {"Close", "DestroyUnit", "GetOldestEpoch"}

\* the positions at which a method returns
ReturnPositions == {"Put_Return", "Get_Return", "Has_Return", "Remove_Return",
                    "Close_Return", "DestroyUnit_Return"}

NoCall == [op |-> "none", key |-> Nil, data |-> Nil, epoch |-> 0, phase |-> "collected"]
NoOut == [v |-> Nil, err |-> NoErr]
NoPre == [cache |-> <<>>, db |-> [k \in Keys |-> Nil], dbOpen |-> TRUE]
Snapshot == [cache |-> cache, db |-> db, dbOpen |-> dbOpen]

\* trail when the run is no longer a series of Puts of new keys
Off == <<Nil>>
Range(q) == {q[n] : n \in 1..Len(q)}

\* values of the caller's variables while SpecSeq is not the specification
SeqNotRun ==
    /\ call = NoCall
    /\ pre = NoPre
    /\ out = NoOut
    /\ gone = {}
    /\ trail = Off

\* ------------------------------------------------------ the bulk call
\* longest keys argument of GetBulkFromEpoch tried
MaxBulk == 2
\* number of calls the other goroutine makes beside the bulk call
MaxOthers == 1

NoBulk == [keys |-> <<>>, idx |-> 1, results |-> <<>>, got |-> <<>>,
           phase |-> "none", err |-> NoErr, others |-> 0]

\* value of the bulk call's variable while SpecBulk is not the specification
BulkNotRun == bulk = NoBulk

\* ======================================================================
\* The constructors
\* ======================================================================
MaxRetriesToCreateDB == 10
minimumSizeForLRUCache == 1024
\* largest CacheConfig.Capacity tried
MaxCapacity == 2

LRUCache == "LRU"
SizeLRUCache == "SizeLRU"
FIFOShardedCache == "FIFOSharded"
\* the cache types tried: the supported ones, one unsupported, the zero value
CacheTypes == {LRUCache, SizeLRUCache, FIFOShardedCache, "Unknown", ""}

\* an error value: a sentinel, or fmt.Errorf("%w, ...") wrapping one
Sentinel(name) == [name |-> name, wraps |-> "", arg |-> 0]
NilError == Sentinel("nil")
ErrNilPersisterFactory == Sentinel("ErrNilPersisterFactory")
ErrNilPersister == Sentinel("ErrNilPersister")
ErrNilCacher == Sentinel("ErrNilCacher")
ErrCacheSizeIsLowerThanBatchSize == Sentinel("ErrCacheSizeIsLowerThanBatchSize")
ErrLRUCacheWithProvidedSize == Sentinel("ErrLRUCacheWithProvidedSize")
ErrLRUCacheInvalidSize == Sentinel("ErrLRUCacheInvalidSize")
ErrNotSupportedCacheType == Sentinel("ErrNotSupportedCacheType")
\* the error a cache implementation's own constructor reports
ErrCacheBackend == Sentinel("ErrCacheBackend")
\* the error of the n-th persisterFactory.Create call
ErrCreate(n) == [name |-> "ErrCreate", wraps |-> "", arg |-> n]
\* fmt.Errorf("%w, provided %d, minimum %d", e, provided, minimumSizeForLRUCache)
Errorf(e, provided) == [name |-> "fmt.Errorf", wraps |-> e.name, arg |-> provided]
\* errors.Is
ErrorsIs(e, target) == e = target \/ e.wraps = target.name

\* int(x) of a uint32 x: exact, int being 64 bits wide
IntOfUint32(x) == x

NoReturn == [unit |-> FALSE, cacher |-> FALSE, db |-> 0, err |-> NilError, done |-> FALSE]
Returned(u, c, p, e) == [unit |-> u, cacher |-> c, db |-> p, err |-> e, done |-> TRUE]

Confs ==
    [type : CacheTypes,
     sizeInBytes : {0, minimumSizeForLRUCache - 1, minimumSizeForLRUCache},
     capacity : 0..MaxCapacity,
     maxBatchSize : -1..(MaxCapacity + 1),
     factoryNil : BOOLEAN,
     cNil : BOOLEAN,
     pNil : BOOLEAN]

\* values of the constructor variables once NewStorageUnitFromConf has
\* returned a Unit on a count-bounded LRU cache of capacity n
NewReturned(n) ==
    /\ npc = "done"
    /\ entry = "none"
    /\ conf = [type |-> LRUCache, sizeInBytes |-> 0, capacity |-> n,
               maxBatchSize |-> 0, factoryNil |-> FALSE, cNil |-> FALSE, pNil |-> FALSE]
    /\ i = 0 /\ cacher = TRUE /\ ndb = 1 /\ nerr = NilError
    /\ ret = Returned(TRUE, FALSE, 0, NilError)
    /\ creates = 1 /\ sleeps = 0 /\ monitored = 1 /\ firstOK = 1

\* values of the constructor variables while no constructor runs
NewNotRun == NewReturned(CacheCapacity)

\* ------------------------------------------------ NewStorageUnitFromConf
\* the batch-size check with >= for >
NewStorageUnitFromConf_CheckBatchSize_Geq ==
    /\ npc = "NewStorageUnitFromConf"
    /\ IF conf.maxBatchSize >= IntOfUint32(conf.capacity)
       THEN /\ ret' = Returned(FALSE, FALSE, 0, ErrCacheSizeIsLowerThanBatchSize)
            /\ npc' = "done"
       ELSE /\ npc' = "NewCache"
            /\ ret' = ret
    /\ UNCHANGED <<unitVars, auxVars, entry, conf, i, cacher, ndb, nerr, creates, sleeps, monitored, firstOK>>

NewStorageUnitFromConf_CheckBatchSize ==
    /\ npc = "NewStorageUnitFromConf"
    /\ IF conf.maxBatchSize > IntOfUint32(conf.capacity)
       THEN /\ ret' = Returned(FALSE, FALSE, 0, ErrCacheSizeIsLowerThanBatchSize)
            /\ npc' = "done"
       ELSE /\ npc' = "NewCache"
            /\ ret' = ret
    /\ UNCHANGED <<unitVars, auxVars, entry, conf, i, cacher, ndb, nerr, creates, sleeps, monitored, firstOK>>

\* ---------------------------------------------------------------- NewCache
NewCache_Monitor ==
    /\ npc = "NewCache"
    /\ monitored' = monitored + 1
    /\ npc' = "NewCache_Switch"
    /\ UNCHANGED <<unitVars, auxVars, entry, conf, i, cacher, ndb, nerr, ret, creates, sleeps, firstOK>>

\* NewCache's result (cacher, err) goes to its caller
NewCache_Result(c, e) ==
    /\ cacher' = c
    /\ nerr' = e
    /\ IF entry = "NewCache"
       THEN ret' = Returned(FALSE, c, 0, e) /\ npc' = "done"
       ELSE IF e # NilError
       THEN ret' = Returned(FALSE, FALSE, 0, e) /\ npc' = "done"
       ELSE ret' = ret /\ npc' = "NewDB"

NewCache_Switch ==
    /\ npc = "NewCache_Switch"
    /\ \E built \in BOOLEAN :
         LET backend == IF built THEN NilError ELSE ErrCacheBackend IN
         CASE conf.type = LRUCache ->
                IF conf.sizeInBytes # 0
                THEN NewCache_Result(FALSE, ErrLRUCacheWithProvidedSize)
                ELSE NewCache_Result(built, backend)
           [] conf.type = SizeLRUCache ->
                IF conf.sizeInBytes < minimumSizeForLRUCache
                THEN NewCache_Result(FALSE, Errorf(ErrLRUCacheInvalidSize, conf.sizeInBytes))
                ELSE NewCache_Result(built, backend)
           [] conf.type = FIFOShardedCache -> NewCache_Result(built, backend)
           [] OTHER -> NewCache_Result(FALSE, ErrNotSupportedCacheType)
    /\ UNCHANGED <<unitVars, auxVars, entry, conf, i, ndb, creates, sleeps, monitored, firstOK>>

\* ------------------------------------------------------------------- NewDB
\* NewDB's result (db, err) goes to its caller
NewDB_Result(p, e) ==
    IF entry = "NewDB"
    THEN ret' = Returned(FALSE, FALSE, p, e) /\ npc' = "done"
    ELSE IF e # NilError
    THEN ret' = Returned(FALSE, FALSE, 0, e) /\ npc' = "done"
    ELSE ret' = ret /\ npc' = "NewStorageUnit"

\* NewDB without the nil-factory check
NewDB_CheckFactory_NoNilCheck ==
    /\ npc = "NewDB"
    /\ npc' = "NewDB_Loop" /\ i' = 0 /\ ret' = ret
    /\ UNCHANGED <<unitVars, auxVars, entry, conf, cacher, ndb, nerr, creates, sleeps, monitored, firstOK>>

NewDB_CheckFactory ==
    /\ npc = "NewDB"
    /\ IF conf.factoryNil
       THEN NewDB_Result(0, ErrNilPersisterFactory) /\ i' = i
       ELSE npc' = "NewDB_Loop" /\ i' = 0 /\ ret' = ret
    /\ UNCHANGED <<unitVars, auxVars, entry, conf, cacher, ndb, nerr, creates, sleeps, monitored, firstOK>>

\* the retry loop without the early return on success
NewDB_Create_NoEarlyReturn ==
    /\ npc = "NewDB_Loop" /\ i < MaxRetriesToCreateDB
    /\ creates' = creates + 1
    /\ \E ok \in BOOLEAN :
         /\ ndb' = IF ok THEN creates' ELSE 0
         /\ nerr' = IF ok THEN NilError ELSE ErrCreate(creates')
         /\ firstOK' = IF ok /\ firstOK = 0 THEN creates' ELSE firstOK
         /\ npc' = "NewDB_Sleep"
         /\ ret' = ret
    /\ UNCHANGED <<unitVars, auxVars, entry, conf, i, cacher, sleeps, monitored>>

NewDB_Create ==
    /\ npc = "NewDB_Loop" /\ i < MaxRetriesToCreateDB
    /\ creates' = creates + 1
    /\ \E ok \in BOOLEAN :
         IF ok
         THEN /\ ndb' = creates'
              /\ nerr' = NilError
              /\ firstOK' = IF firstOK = 0 THEN creates' ELSE firstOK
              /\ NewDB_Result(creates', NilError)
         ELSE /\ ndb' = 0
              /\ nerr' = ErrCreate(creates')
              /\ firstOK' = firstOK
              /\ npc' = "NewDB_Sleep"
              /\ ret' = ret
    /\ UNCHANGED <<unitVars, auxVars, entry, conf, i, cacher, sleeps, monitored>>

NewDB_Sleep ==
    /\ npc = "NewDB_Sleep"
    /\ sleeps' = sleeps + 1
    /\ i' = i + 1
    /\ npc' = "NewDB_Loop"
    /\ UNCHANGED <<unitVars, auxVars, entry, conf, cacher, ndb, nerr, ret, creates, monitored, firstOK>>

NewDB_AfterLoop ==
    /\ npc = "NewDB_Loop" /\ ~(i < MaxRetriesToCreateDB)
    /\ IF nerr # NilError THEN NewDB_Result(0, nerr) ELSE NewDB_Result(ndb, NilError)
    /\ UNCHANGED <<unitVars, auxVars, entry, conf, i, cacher, ndb, nerr, creates, sleeps, monitored, firstOK>>

\* ---------------------------------------------------------- NewStorageUnit
\* NewStorageUnit with the nil cacher checked before the nil persister
NewStorageUnit_CacherFirst ==
    /\ npc = "NewStorageUnit"
    /\ LET pNil == IF entry = "NewStorageUnit" THEN conf.pNil ELSE ndb = 0
           cNil == IF entry = "NewStorageUnit" THEN conf.cNil ELSE ~cacher
       IN  ret' = IF cNil THEN Returned(FALSE, FALSE, 0, ErrNilCacher)
                  ELSE IF pNil THEN Returned(FALSE, FALSE, 0, ErrNilPersister)
                  ELSE Returned(TRUE, FALSE, 0, NilError)
    /\ npc' = "done"
    /\ UNCHANGED <<unitVars, auxVars, entry, conf, i, cacher, ndb, nerr, creates, sleeps, monitored, firstOK>>

NewStorageUnit ==
    /\ npc = "NewStorageUnit"
    /\ LET pNil == IF entry = "NewStorageUnit" THEN conf.pNil ELSE ndb = 0
           cNil == IF entry = "NewStorageUnit" THEN conf.cNil ELSE ~cacher
       IN  ret' = IF pNil THEN Returned(FALSE, FALSE, 0, ErrNilPersister)
                  ELSE IF cNil THEN Returned(FALSE, FALSE, 0, ErrNilCacher)
                  ELSE Returned(TRUE, FALSE, 0, NilError)
    /\ npc' = "done"
    /\ UNCHANGED <<unitVars, auxVars, entry, conf, i, cacher, ndb, nerr, creates, sleeps, monitored, firstOK>>

\* a caller invokes one constructor on arbitrary arguments
InitNew ==
    /\ entry \in {"NewStorageUnitFromConf", "NewCache", "NewDB", "NewStorageUnit"}
    /\ npc = entry
    /\ conf \in Confs
    /\ i = 0 /\ cacher = FALSE /\ ndb = 0 /\ nerr = NilError
    /\ ret = NoReturn
    /\ creates = 0 /\ sleeps = 0 /\ monitored = 0 /\ firstOK = 0
    /\ cache = <<>>
    /\ db = [k \in Keys |-> Nil]
    /\ dbOpen = TRUE
    /\ lockW = Nil
    /\ lockR = {}
    /\ th = [t \in Threads |-> Idle]
    /\ watch = 1
    /\ stable = Nil
    /\ rolledBack = FALSE
    /\ follow = "no"
    /\ SeqNotRun
    /\ TimeNotRun
    /\ PeerNotRun
    /\ BulkNotRun

NextNew ==
    \/ NewStorageUnitFromConf_CheckBatchSize
    \/ NewCache_Monitor
    \/ NewCache_Switch
    \/ NewDB_CheckFactory
    \/ NewDB_Create
    \/ NewDB_Sleep
    \/ NewDB_AfterLoop
    \/ NewStorageUnit

SpecNew == InitNew /\ [][NextNew]_vars

\* a constructor is one sequential call: it keeps running until it returns
SpecNewFair == SpecNew /\ WF_vars(NextNew)

\* ======================================================================
\* Properties of the constructors (specifications SpecNew, SpecNewFair)
\* ======================================================================
NilResult == ~ret.unit /\ ~ret.cacher /\ ret.db = 0

\* NewDB has entered its retry loop
NewDBLooped ==
    /\ ~conf.factoryNil
    /\ \/ entry = "NewDB" /\ npc # "NewDB"
       \/ entry = "NewStorageUnitFromConf" /\ (creates > 0 \/ npc = "NewDB_Loop")

\* C7: NewDB with a non-nil factory returns after at most
\* MaxRetriesToCreateDB Create calls; it returns the persister of the first
\* successful call with a nil error and calls Create no more after it; when
\* all MaxRetriesToCreateDB calls fail it returns (nil, error of the last).
C7_NewDBRetries ==
    /\ [](/\ creates <= MaxRetriesToCreateDB
          /\ firstOK # 0 => creates = firstOK
          /\ ret.done /\ NewDBLooped /\ entry = "NewDB"
                => IF firstOK # 0
                   THEN ret.db = firstOK /\ ret.err = NilError
                   ELSE /\ creates = MaxRetriesToCreateDB
                        /\ ret.db = 0
                        /\ ret.err = ErrCreate(MaxRetriesToCreateDB)
          /\ ret.done /\ NewDBLooped /\ entry = "NewStorageUnitFromConf"
                => IF firstOK # 0
                   THEN ndb = firstOK /\ ret.err = NilError /\ ret.unit
                   ELSE /\ creates = MaxRetriesToCreateDB
                        /\ ~ret.unit
                        /\ ret.err = ErrCreate(MaxRetriesToCreateDB))
    /\ <>(ret.done)

\* Create failed on calls 1..9 and succeeded on call 10
C7_Witness ==
    /\ ret.done /\ entry = "NewDB"
    /\ firstOK = MaxRetriesToCreateDB
    /\ ret.db = MaxRetriesToCreateDB /\ ret.err = NilError

\* C8 (as claimed): NewDB sleeps at most MaxRetriesToCreateDB - 1 times,
\* only between two attempts and never after the last one.
C8_SleepsOnlyBetweenAttempts ==
    /\ sleeps <= MaxRetriesToCreateDB - 1
    /\ ret.done /\ creates > 0 => sleeps <= creates - 1

\* the cache configuration error NewCache detects on conf, NilError if none
C10_CacheConfigError ==
    CASE conf.type = LRUCache /\ conf.sizeInBytes # 0 -> ErrLRUCacheWithProvidedSize
      [] conf.type = SizeLRUCache /\ conf.sizeInBytes < minimumSizeForLRUCache
            -> ErrLRUCacheInvalidSize
      [] conf.type \notin {LRUCache, SizeLRUCache, FIFOShardedCache}
            -> ErrNotSupportedCacheType
      [] OTHER -> NilError

BatchSizeError == conf.maxBatchSize > conf.capacity

\* C9: NewStorageUnitFromConf with MaxBatchSize > Capacity returns
\* (nil, ErrCacheSizeIsLowerThanBatchSize) without calling NewCache (no
\* monitoring call, no cacher) or factory.Create; with MaxBatchSize <=
\* Capacity it never returns that error.
C9_BatchSizeCheckedFirst ==
    entry = "NewStorageUnitFromConf" =>
        /\ BatchSizeError =>
              /\ monitored = 0 /\ creates = 0 /\ sleeps = 0 /\ ~cacher
              /\ ret.done => ret = Returned(FALSE, FALSE, 0, ErrCacheSizeIsLowerThanBatchSize)
        /\ ~BatchSizeError /\ ret.done => ret.err # ErrCacheSizeIsLowerThanBatchSize

\* an otherwise valid configuration rejected for its batch size
C9_Witness ==
    /\ entry = "NewStorageUnitFromConf" /\ ret.done
    /\ BatchSizeError
    /\ conf.type = LRUCache /\ conf.sizeInBytes = 0 /\ ~conf.factoryNil
    /\ conf.capacity > 0

\* C10 (as claimed): whenever the configuration has a cache configuration
\* error or a nil factory, NewStorageUnitFromConf / NewCache / NewDB return
\* that error with a nil result, no Create call and no sleep.
C10_EachConfigErrorReturned ==
    ret.done =>
        /\ entry \in {"NewStorageUnitFromConf", "NewCache"} /\ C10_CacheConfigError # NilError
              => /\ ErrorsIs(ret.err, C10_CacheConfigError)
                 /\ NilResult /\ creates = 0 /\ sleeps = 0
        /\ entry \in {"NewStorageUnitFromConf", "NewDB"} /\ conf.factoryNil
              => /\ ret.err = ErrNilPersisterFactory
                 /\ NilResult /\ creates = 0 /\ sleeps = 0

\* C10 (amended): NewCache and NewDB return their configuration error
\* (ErrLRUCacheInvalidSize wrapped) with a nil result; NewStorageUnitFromConf
\* returns the error of the first failing step in the order batch-size
\* check, NewCache, NewDB, so of several configuration errors only the
\* earliest is reported; in all these cases the result is nil, Create is
\* never called and no backoff sleep happens.
C10_FirstConfigErrorReturned ==
    /\ entry = "NewCache" => creates = 0 /\ sleeps = 0
    /\ entry = "NewDB" /\ conf.factoryNil => creates = 0 /\ sleeps = 0
    /\ entry = "NewStorageUnitFromConf"
         /\ (BatchSizeError \/ C10_CacheConfigError # NilError \/ conf.factoryNil)
         => creates = 0 /\ sleeps = 0
    /\ ret.done =>
        /\ entry = "NewCache" /\ C10_CacheConfigError # NilError
              => ErrorsIs(ret.err, C10_CacheConfigError) /\ NilResult
        /\ entry = "NewDB" /\ conf.factoryNil
              => ret.err = ErrNilPersisterFactory /\ NilResult
        /\ entry = "NewStorageUnitFromConf"
              => /\ BatchSizeError
                      => ret.err = ErrCacheSizeIsLowerThanBatchSize /\ NilResult
                 /\ ~BatchSizeError /\ C10_CacheConfigError # NilError
                      => ErrorsIs(ret.err, C10_CacheConfigError) /\ NilResult
                 /\ ~BatchSizeError /\ C10_CacheConfigError = NilError /\ conf.factoryNil
                      => /\ NilResult
                         /\ ret.err = IF cacher THEN ErrNilPersisterFactory ELSE ErrCacheBackend

\* NewStorageUnitFromConf on a configuration with two errors, an invalid
\* cache configuration and a nil factory: the cache error is returned
C10_Witness ==
    /\ entry = "NewStorageUnitFromConf" /\ ret.done
    /\ ~BatchSizeError
    /\ C10_CacheConfigError # NilError
    /\ conf.factoryNil
    /\ ErrorsIs(ret.err, C10_CacheConfigError)

\* the position of each construction step of NewStorageUnitFromConf
StepOf(p) ==
    CASE p = "NewStorageUnitFromConf" -> 1
      [] p \in {"NewCache", "NewCache_Switch"} -> 2
      [] p \in {"NewDB", "NewDB_Loop", "NewDB_Sleep"} -> 3
      [] p = "NewStorageUnit" -> 4
      [] OTHER -> 5

\* C18: NewStorageUnitFromConf and NewStorageUnit return a Unit exactly when
\* the error is nil, and a returned Unit has a non-nil cacher and a non-nil
\* persister; NewStorageUnitFromConf runs batch-size check, NewCache, NewDB,
\* NewStorageUnit in this order, each step only after the earlier ones
\* succeeded, and nothing runs after a return; NewStorageUnit reports
\* ErrNilPersister before ErrNilCacher.
C18_UnitIffNilError ==
    /\ entry \in {"NewStorageUnitFromConf", "NewStorageUnit"} /\ ret.done
        => /\ ret.unit <=> ret.err = NilError
           /\ ~ENABLED NextNew
    /\ entry = "NewStorageUnit" /\ ret.done
        => /\ ret.unit => ~conf.pNil /\ ~conf.cNil
           /\ conf.pNil => ret.err = ErrNilPersister
           /\ ~conf.pNil /\ conf.cNil => ret.err = ErrNilCacher
    /\ entry = "NewStorageUnitFromConf"
        => /\ StepOf(npc) = 1 => monitored = 0 /\ creates = 0 /\ ~cacher /\ ndb = 0
           /\ StepOf(npc) = 2 => ~BatchSizeError /\ creates = 0 /\ ~cacher /\ ndb = 0
           /\ StepOf(npc) = 3 => ~BatchSizeError /\ monitored = 1 /\ cacher
           /\ StepOf(npc) = 4 => /\ ~BatchSizeError /\ monitored = 1 /\ cacher
                                 /\ ndb # 0 /\ nerr = NilError /\ creates = firstOK
           /\ ret.done
                => /\ ret.unit => cacher /\ ndb # 0
                   /\ BatchSizeError => ~ret.unit /\ monitored = 0 /\ creates = 0
                   /\ monitored = 1 /\ ~cacher => ~ret.unit /\ creates = 0
                   /\ cacher /\ ndb = 0
                        => ~ret.unit /\ ret.err \notin {ErrNilPersister, ErrNilCacher}

\* NewStorageUnit called with a nil cacher and a nil persister has returned
\* ErrNilPersister
C18_Witness ==
    /\ entry = "NewStorageUnit" /\ ret.done
    /\ conf.pNil /\ conf.cNil
    /\ ~ret.unit /\ ret.err = ErrNilPersister

\* ======================================================================
\* The Unit under concurrent use
\* ======================================================================
\* the Unit NewStorageUnit returns: empty LRU cache, open persister, free lock
Init ==
    /\ cache = <<>>
    /\ db = [k \in Keys |-> Nil]
    /\ dbOpen = TRUE
    /\ lockW = Nil
    /\ lockR = {}
    /\ th = [t \in Threads |-> Idle]
    /\ watch \in Keys
    /\ stable = Nil
    /\ rolledBack = FALSE
    /\ follow = "no"
    /\ NewNotRun
    /\ SeqNotRun
    /\ TimeNotRun
    /\ PeerNotRun
    /\ BulkNotRun

Next ==
    \/ \E t \in Threads, k \in Keys, d \in Values : Put_CacherPut(t, k, d)
    \/ \E t \in Threads : Put_PersisterPut(t)
    \/ \E t \in Threads : Put_CacherRemove(t)
    \/ \E t \in Threads : Put_Return(t)
    \/ \E t \in Threads, k \in Keys : Get_CacherGet(t, k)
    \/ \E t \in Threads : Get_PersisterGet(t)
    \/ \E t \in Threads : Get_CacherPut(t)
    \/ \E t \in Threads : Get_Return(t)
    \/ \E t \in Threads, k \in Keys : Has_CacherHas(t, k)
    \/ \E t \in Threads : Has_PersisterHas(t)
    \/ \E t \in Threads : Has_Return(t)
    \/ \E t \in Threads, k \in Keys : Remove_CacherRemove(t, k)
    \/ \E t \in Threads : Remove_PersisterRemove(t)
    \/ \E t \in Threads : Remove_Return(t)
    \/ \E t \in Threads : ClearCache(t)
    \/ \E t \in Threads : Close_CacherClear(t)
    \/ \E t \in Threads : Close_PersisterClose(t)
    \/ \E t \in Threads : Close_Return(t)
    \/ \E t \in Threads : RangeKeys(t)
    \/ \E t \in Threads : DestroyUnit_CacherClear(t)
    \/ \E t \in Threads : DestroyUnit_PersisterDestroy(t)
    \/ \E t \in Threads : DestroyUnit_Return(t)

Spec == Init /\ [][Next]_vars

\* ======================================================================
\* One caller using the Unit sequentially (specification SpecSeq)
\* ======================================================================
Called(op) == call.phase = "called" /\ call.op = op

\* the caller makes its next call once the previous one has returned
SeqCall(op, k, d, e) ==
    /\ At(Caller, "idle")
    /\ call.phase = "collected" \/ call.op \in OneStepOps
    /\ call' = [op |-> op, key |-> k, data |-> d, epoch |-> e, phase |-> "called"]
    /\ pre' = Snapshot
    /\ out' = NoOut
    /\ trail' = IF trail = Off THEN Off
                ELSE IF op = "Put" THEN trail
                ELSE IF op = "Get" /\ Len(trail) = conf.capacity + 1 /\ k = trail[1] THEN trail
                ELSE Off
    /\ UNCHANGED <<notSeq, gone>>

\* the caller takes the result at the method's return statement; the call is
\* over and its record is dropped
SeqCollect ==
    /\ \/ call.phase = "called" /\ th[Caller].pc \in ReturnPositions
       \/ call.phase = "answered"
    /\ call' = NoCall
    /\ pre' = NoPre
    /\ out' = NoOut
    /\ gone' = IF th[Caller].err # NoErr THEN gone
               ELSE IF OpOf(th[Caller].pc) = "Remove" THEN gone \cup {th[Caller].key}
               ELSE IF OpOf(th[Caller].pc) = "Put" THEN gone \ {th[Caller].key}
               ELSE gone
    /\ trail' = IF /\ trail # Off /\ call.op = "Put" /\ th[Caller].err = NoErr
                   /\ call.key \notin Range(trail) /\ Len(trail) <= conf.capacity
                THEN Append(trail, call.key)
                ELSE Off
    /\ UNCHANGED notSeq

SeqReturn ==
    /\ call.phase = "collected"
    /\ \/ Put_Return(Caller)
       \/ Get_Return(Caller)
       \/ Has_Return(Caller)
       \/ Remove_Return(Caller)
       \/ Close_Return(Caller)
       \/ DestroyUnit_Return(Caller)

\* PutInEpoch with the epoch mixed into the key
PutInEpoch_KeyedByEpoch(t, k, d, e) == Put_CacherPut(t, IF e = 0 THEN k ELSE (k % NumKeys) + 1, d)

PutInEpoch(t, k, d, e) == Put_CacherPut(t, k, d)

GetFromEpoch(t, k, e) == Get_CacherGet(t, k)

SearchFirst(t, k) == Get_CacherGet(t, k)

RemoveFromCurrentEpoch(t, k) == Remove_CacherRemove(t, k)

GetOldestEpoch ==
    /\ Called("GetOldestEpoch")
    /\ out' = [v |-> 0, err |-> ErrOldestEpochNotAvailable]
    /\ call' = [call EXCEPT !.phase = "answered"]
    /\ UNCHANGED <<notSeq, pre, gone, trail>>

Seq_Put == Called("Put") /\ Put_CacherPut(Caller, call.key, call.data)
Seq_PutInEpoch == Called("PutInEpoch") /\ PutInEpoch(Caller, call.key, call.data, call.epoch)
Seq_Get == Called("Get") /\ Get_CacherGet(Caller, call.key)
Seq_GetFromEpoch == Called("GetFromEpoch") /\ GetFromEpoch(Caller, call.key, call.epoch)
Seq_SearchFirst == Called("SearchFirst") /\ SearchFirst(Caller, call.key)
Seq_Has == Called("Has") /\ Has_CacherHas(Caller, call.key)
Seq_Remove == Called("Remove") /\ Remove_CacherRemove(Caller, call.key)
Seq_RemoveFromCurrentEpoch ==
    Called("RemoveFromCurrentEpoch") /\ RemoveFromCurrentEpoch(Caller, call.key)
Seq_ClearCache == Called("ClearCache") /\ ClearCache(Caller)
Seq_Close == Called("Close") /\ Close_CacherClear(Caller)
Seq_DestroyUnit == Called("DestroyUnit") /\ DestroyUnit_CacherClear(Caller)

InitSeq ==
    /\ cache = <<>>
    /\ db = [k \in Keys |-> Nil]
    /\ dbOpen = TRUE
    /\ lockW = Nil
    /\ lockR = {}
    /\ th = [t \in Threads |-> Idle]
    /\ watch = 1
    /\ stable = Nil
    /\ rolledBack = FALSE
    /\ follow = "no"
    /\ NewNotRun
    /\ call = NoCall
    /\ pre = NoPre
    /\ out = NoOut
    /\ gone = {}
    /\ trail = Off
    /\ TimeNotRun
    /\ PeerNotRun
    /\ BulkNotRun

NextSeq ==
    \/ \E op \in SeqOps :
         \E k \in (IF op \in KeyOps THEN Keys ELSE {Nil}) :
           \E d \in (IF op \in DataOps THEN Values ELSE {Nil}) :
             \E e \in (IF op \in EpochOps THEN Epochs ELSE {0}) : SeqCall(op, k, d, e)
    \/ Seq_Put
    \/ Seq_PutInEpoch
    \/ Seq_Get
    \/ Seq_GetFromEpoch
    \/ Seq_SearchFirst
    \/ Seq_Has
    \/ Seq_Remove
    \/ Seq_RemoveFromCurrentEpoch
    \/ Seq_ClearCache
    \/ Seq_Close
    \/ Seq_DestroyUnit
    \/ GetOldestEpoch
    \/ Put_PersisterPut(Caller)
    \/ Put_CacherRemove(Caller)
    \/ Get_PersisterGet(Caller)
    \/ Get_CacherPut(Caller)
    \/ Has_PersisterHas(Caller)
    \/ Remove_PersisterRemove(Caller)
    \/ Close_PersisterClose(Caller)
    \/ DestroyUnit_PersisterDestroy(Caller)
    \/ SeqCollect
    \/ SeqReturn

SpecSeq == InitSeq /\ [][NextSeq]_vars

\* ======================================================================
\* One caller putting and getting on a Unit whose LRU cache has room for
\* all keys but one (specification SpecLRU)
\* ======================================================================
LRUCapacity == CacheCapacity + 1
LRUKeys == 1..(LRUCapacity + 1)
\* as in Put("a", 1), Put("b", 2), Put("c", 3): one value per key
LRUValue(k) == k

InitLRU ==
    /\ cache = <<>>
    /\ db = [k \in LRUKeys |-> Nil]
    /\ dbOpen = TRUE
    /\ lockW = Nil
    /\ lockR = {}
    /\ th = [t \in Threads |-> Idle]
    /\ watch = 1
    /\ stable = Nil
    /\ rolledBack = FALSE
    /\ follow = "no"
    /\ NewReturned(LRUCapacity)
    /\ call = NoCall
    /\ pre = NoPre
    /\ out = NoOut
    /\ gone = {}
    /\ trail = <<>>
    /\ TimeNotRun
    /\ PeerNotRun
    /\ BulkNotRun

NextLRU ==
    \/ \E k \in LRUKeys : SeqCall("Put", k, LRUValue(k), 0)
    \/ \E k \in LRUKeys : SeqCall("Get", k, Nil, 0)
    \/ Seq_Put
    \/ Seq_Get
    \/ Put_PersisterPut(Caller)
    \/ Put_CacherRemove(Caller)
    \/ Get_PersisterGet(Caller)
    \/ Get_CacherPut(Caller)
    \/ SeqCollect
    \/ SeqReturn

SpecLRU == InitLRU /\ [][NextLRU]_vars

\* ======================================================================
\* The expiring time cache (specification SpecTime)
\* ======================================================================
InitTime ==
    /\ cache = <<>>
    /\ db = [k \in Keys |-> Nil]
    /\ dbOpen = TRUE
    /\ lockW = Nil
    /\ lockR = {}
    /\ th = [t \in Threads |-> Idle]
    /\ watch = 1
    /\ stable = Nil
    /\ rolledBack = FALSE
    /\ follow = "no"
    /\ NewNotRun
    /\ SeqNotRun
    /\ TimeNotRun
    /\ PeerNotRun
    /\ BulkNotRun

NextTime ==
    \/ \E k \in Keys, ttl \in TTLs : TimeCache_Upsert(k, ttl)
    \/ \E k \in Keys : TimeCache_Has(k)
    \/ TimeCache_Sweep
    \/ ClockTick

SpecTime == InitTime /\ [][NextTime]_vars

\* ======================================================================
\* The peer time cache (specification SpecPeer)
\* ======================================================================
InitPeer ==
    /\ cache = <<>>
    /\ db = [k \in Keys |-> Nil]
    /\ dbOpen = TRUE
    /\ lockW = Nil
    /\ lockR = {}
    /\ th = [t \in Threads |-> Idle]
    /\ watch = 1
    /\ stable = Nil
    /\ rolledBack = FALSE
    /\ follow = "no"
    /\ NewNotRun
    /\ SeqNotRun
    /\ TimeNotRun
    /\ PeerNotRun
    /\ BulkNotRun

NextPeer ==
    \/ \E tcNil \in BOOLEAN : NewPeerTimeCache(tcNil)
    \/ \E pid \in PeerIDs, span \in Spans : PeerTimeCache_Upsert(pid, span)
    \/ \E pid \in PeerIDs : PeerTimeCache_Has(pid)
    \/ PeerTimeCache_Sweep

SpecPeer == InitPeer /\ [][NextPeer]_vars

\* ======================================================================
\* GetBulkFromEpoch beside Put and Remove (specification SpecBulk)
\* ======================================================================
\* the goroutine beside the caller
Other == 2

\* the keys arguments tried: every sequence of at most MaxBulk keys
BulkInputs == UNION {[1..n -> Keys] : n \in 0..MaxBulk}

KeyValuePair(k, v) == [Key |-> k, Value |-> v]

\* the loop is between two calls of u.Get
BetweenKeys == bulk.phase \in {"called", "collected"} /\ At(Caller, "idle")

bulkFrame == <<unitVars, newVars, timeVars, peerVars, out, gone, trail>>

\* for _, key := range keys: the next key is taken and u.Get(key) is called;
\* pre is the state u.Get finds
Bulk_Range ==
    /\ BetweenKeys /\ bulk.idx <= Len(bulk.keys)
    /\ CanLock
    /\ bulk' = [bulk EXCEPT !.phase = "getting"]
    /\ pre' = Snapshot
    /\ UNCHANGED <<bulkFrame, call>>

Bulk_Get == bulk.phase = "getting" /\ Get_CacherGet(Caller, bulk.keys[bulk.idx])

\* the loop body that keeps the keys whose Get failed, with a nil value
Bulk_Collect_KeepsFailed ==
    /\ bulk.phase = "getting" /\ At(Caller, "Get_Return")
    /\ LET key == bulk.keys[bulk.idx]
           value == th[Caller].v
           err == th[Caller].err
       IN  bulk' = [bulk EXCEPT
                      !.results = Append(@, KeyValuePair(key, value)),
                      !.got = Append(@, [v |-> value, err |-> err]),
                      !.idx = @ + 1,
                      !.phase = "collected"]
    /\ UNCHANGED <<bulkFrame, call, pre>>

\* value, err := u.Get(key); if err != nil { continue }; results = append(...)
Bulk_Collect ==
    /\ bulk.phase = "getting" /\ At(Caller, "Get_Return")
    /\ LET key == bulk.keys[bulk.idx]
           value == th[Caller].v
           err == th[Caller].err
       IN  bulk' = [bulk EXCEPT
                      !.results = IF err # NoErr THEN @
                                  ELSE Append(@, KeyValuePair(key, value)),
                      !.got = Append(@, [v |-> value, err |-> err]),
                      !.idx = @ + 1,
                      !.phase = "collected"]
    /\ UNCHANGED <<bulkFrame, call, pre>>

\* u.Get returns to the loop
Bulk_GetReturn == bulk.phase = "collected" /\ Get_Return(Caller)

\* return results, nil
Bulk_Return ==
    /\ BetweenKeys /\ ~(bulk.idx <= Len(bulk.keys))
    /\ bulk' = [bulk EXCEPT !.phase = "returned", !.err = NoErr]
    /\ UNCHANGED <<bulkFrame, call, pre>>

\* the other goroutine calls Put(k, d) or Remove(k) once the bulk call has
\* got its first key and before it gets its last
Other_Call(op, k, d) ==
    /\ call = NoCall /\ At(Other, "idle")
    /\ bulk.phase \in {"getting", "collected"} /\ bulk.others < MaxOthers
    /\ bulk.idx \in 2..Len(bulk.keys)
    /\ call' = [NoCall EXCEPT !.op = op, !.key = k, !.data = d, !.phase = "called"]
    /\ bulk' = [bulk EXCEPT !.others = @ + 1]
    /\ UNCHANGED <<bulkFrame, pre>>

\* its call waits while u.Get, whose starting state pre is, takes the lock
Other_Put ==
    /\ call.op = "Put" /\ call.phase = "called" /\ bulk.phase # "getting"
    /\ Put_CacherPut(Other, call.key, call.data)

Other_Remove ==
    /\ call.op = "Remove" /\ call.phase = "called" /\ bulk.phase # "getting"
    /\ Remove_CacherRemove(Other, call.key)

\* its call is over
Other_Done ==
    /\ call.phase = "called" /\ th[Other].pc \in {"Put_Return", "Remove_Return"}
    /\ call' = NoCall
    /\ UNCHANGED <<bulkFrame, pre, bulk>>

Other_Return == call = NoCall /\ (Put_Return(Other) \/ Remove_Return(Other))

\* GetBulkFromEpoch(keys, e) is called on a Unit with an empty cache over a
\* persister that holds any of the keys but the first
InitBulk ==
    /\ cache = <<>>
    /\ db \in {d \in [Keys -> {Nil} \cup Values] : d[1] = Nil /\ \A k \in Keys : d[k] \in {Nil, k}}
    /\ dbOpen = TRUE
    /\ lockW = Nil
    /\ lockR = {}
    /\ th = [t \in Threads |-> Idle]
    /\ watch = 1
    /\ stable = Nil
    /\ rolledBack = FALSE
    /\ follow = "no"
    /\ NewNotRun
    /\ SeqNotRun
    /\ TimeNotRun
    /\ PeerNotRun
    /\ \E ks \in BulkInputs : bulk = [NoBulk EXCEPT !.keys = ks, !.phase = "called"]

NextBulk ==
    \/ Bulk_Range
    \/ Bulk_Get
    \/ Get_PersisterGet(Caller)
    \/ Get_CacherPut(Caller)
    \/ Bulk_Collect
    \/ Bulk_GetReturn
    \/ Bulk_Return
    \/ \E k \in Keys, d \in Values : Other_Call("Put", k, d)
    \/ \E k \in Keys : Other_Call("Remove", k, Nil)
    \/ Other_Put
    \/ Put_PersisterPut(Other)
    \/ Put_CacherRemove(Other)
    \/ Other_Remove
    \/ Remove_PersisterRemove(Other)
    \/ Other_Done
    \/ Other_Return

SpecBulk == InitBulk /\ [][NextBulk]_vars

\* ======================================================================
\* Properties of the Unit (specification Spec)
\* ======================================================================

\* C1 (as claimed): once Put(k, v) has returned nil and no Put(k, _),
\* Remove(k), Close or DestroyUnit has been invoked since, every Get(k)
\* returns exactly v with a nil error.
C1_GetAlwaysReturnsPutValue ==
    \A t \in Threads :
        At(t, "Get_Return") /\ th[t].key = watch /\ stable \in Values
            => th[t].err = NoErr /\ th[t].v = stable

\* C1 (amended): under the same conditions Get(k) returns exactly v with a
\* nil error, or, when k is no longer cached and the persister read itself
\* fails, (nil, that read error); it never returns another value and never
\* reports k as missing.
C1_GetReturnsPutValueOrReadError ==
    \A t \in Threads :
        At(t, "Get_Return") /\ th[t].key = watch /\ stable \in Values
            => \/ th[t].err = NoErr /\ th[t].v = stable
               \/ th[t].err = ErrIO /\ th[t].v = Nil /\ ~th[t].ok

\* a Get of a successfully put key that was no longer cached and was served
\* by the persister
C1_Witness ==
    \E t \in Threads :
        /\ At(t, "Get_Return") /\ th[t].key = watch /\ stable \in Values
        /\ ~th[t].ok /\ th[t].err = NoErr /\ th[t].v = stable

\* C2: a Put whose persister write failed returns the persister's error with
\* no cache entry for its key, a later Get of that key is not a cache hit
\* until the key is cached again by another Put or back-fill, and a Put that
\* returns nil has written the persister.
C2_FailedPutRollsBack ==
    /\ \A t \in Threads :
        /\ At(t, "Put_CacherRemove") => th[t].err # NoErr
        /\ At(t, "Put_Return") /\ th[t].err # NoErr => ~CacheHas(cache, th[t].key)
        /\ At(t, "Put_Return") /\ th[t].err = NoErr => db[th[t].key] = th[t].data
        /\ At(t, "Get_Return") /\ th[t].ok /\ th[t].key = watch => ~rolledBack
    /\ rolledBack => ~CacheHas(cache, watch)

\* a Get that follows a failed Put of the same key and missed the cache
C2_Witness ==
    \E t \in Threads :
        At(t, "Get_Return") /\ th[t].key = watch /\ rolledBack /\ ~th[t].ok

\* C3: whenever nobody holds Unit.lock, every cache entry holds exactly the
\* bytes the persister stores for its key.
C3_CacheSubsetOfPersister ==
    lockW = Nil /\ lockR = {}
        => \A k \in Keys : CacheHas(cache, k) => CachePeek(cache, k) = db[k]

\* free lock, a cached key, a persisted key that is not cached, after a
\* failed Put
C3_Witness ==
    /\ lockW = Nil /\ lockR = {}
    /\ rolledBack
    /\ \E k \in Keys : CacheHas(cache, k)
    /\ \E k \in Keys : db[k] # Nil /\ ~CacheHas(cache, k)

\* the steps of Get, C4
C4_GetStep ==
    \A t \in Threads :
        LET k == th[t].key IN
        /\ At(t, "idle") /\ OpOf(th'[t].pc) = "Get"
            => IF CacheHas(cache, th'[t].key)
               THEN /\ th'[t].pc = "Get_Return"
                    /\ th'[t].v = CachePeek(cache, th'[t].key)
                    /\ th'[t].err = NoErr
               ELSE th'[t].pc = "Get_PersisterGet" /\ cache' = cache
        /\ At(t, "Get_PersisterGet") /\ At(t, "Get_Return")'
            => th'[t].err # NoErr /\ th'[t].v = Nil /\ cache' = cache
        /\ At(t, "Get_CacherPut") /\ At(t, "Get_Return")'
            => th[t].v # Nil /\ CachePeek(cache', k) = th[t].v

\* C4: Get asks the persister only after a cache miss; a successful
\* persister read is put into the cache before Get returns, so a Get(k) that
\* immediately follows a successful Get(k) never reaches the persister; a
\* failed persister read returns (nil, error) and leaves the cache as it was.
C4_GetReadThrough ==
    /\ [](\A t \in Threads :
            At(t, "Get_PersisterGet")
                => ~th[t].ok /\ ~(follow = "yes" /\ th[t].key = watch))
    /\ [][C4_GetStep]_vars

\* a Get served from the cache right after a successful Get of the same key
C4_Witness ==
    \E t \in Threads :
        At(t, "Get_Return") /\ th[t].ok /\ th[t].key = watch /\ follow = "yes"

\* C5: no Get or Has runs while a Put is between its cache write and its
\* completion; a successful Get returns the value the persister holds, and
\* a successful Has means the persister holds the key: never the value of a
\* Put that is unfinished or fails.
C5_NoHalfAppliedPut ==
    /\ \A t \in Threads :
        /\ At(t, "Get_Return") /\ th[t].err = NoErr
            => th[t].v # Nil /\ th[t].v = db[th[t].key]
        /\ At(t, "Has_Return") /\ th[t].err = NoErr => db[th[t].key] # Nil
    /\ \A t, u \in Threads :
        t # u /\ th[t].pc \in {"Put_PersisterPut", "Put_CacherRemove"}
            => OpOf(th[u].pc) \notin {"Get", "Has"}

\* the half-applied state exists: a failed Put not yet rolled back, its
\* value in the cache but not in the persister
C5_Witness ==
    \E t \in Threads :
        /\ At(t, "Put_CacherRemove")
        /\ CachePeek(cache, th[t].key) = th[t].data
        /\ db[th[t].key] # th[t].data

\* C6 (as claimed): every operation runs under Unit.lock for all of its
\* steps, exclusively when it modifies the cache or the persister, and no
\* other operation is under way between the cache step and the persister
\* step of Close, DestroyUnit, Put or Remove.
C6_EveryOperationHoldsLock ==
    /\ \A t \in Threads :
        /\ OpOf(th[t].pc) \in {"Put", "Get", "Remove", "Close", "DestroyUnit"}
            => lockW = t
        /\ OpOf(th[t].pc) = "Has" => t \in lockR
    /\ \A t, u \in Threads :
        t # u /\ th[t].pc \in {"Close_PersisterClose", "DestroyUnit_PersisterDestroy",
                                "Put_PersisterPut", "Remove_PersisterRemove"}
            => OpOf(th[u].pc) = "none"

\* C13 (as claimed): when Close or DestroyUnit returns, the cache is empty,
\* whether the persister call failed or not, and the error returned is the
\* persister's: nil only when the persister is closed (destroyed: and empty).
C13_CacheEmptyOnReturn ==
    \A t \in Threads :
        /\ At(t, "Close_Return")
            => /\ cache = <<>>
               /\ th[t].err = NoErr => ~dbOpen
        /\ At(t, "DestroyUnit_Return")
            => /\ cache = <<>>
               /\ th[t].err = NoErr => ~dbOpen /\ \A k \in Keys : db[k] = Nil

\* ======================================================================
\* Properties of the Unit used sequentially (specification SpecSeq)
\* ======================================================================
\* ------------------------------------- the methods as functions of the state
\* what the persister answers a read of k in state s when it does not fail
RefLookupErr(s, k) ==
    IF ~s.dbOpen THEN ErrDBIsClosed
    ELSE IF s.db[k] = Nil THEN ErrKeyNotFound
    ELSE NoErr

Outcome(c, d, s, v, e) == [cache |-> c, db |-> d, dbOpen |-> s.dbOpen, v |-> v, err |-> e]

\* Unit.Put(k, d) called in state s, the persister write failing or not
RefPut(s, k, d, fault) ==
    LET e == IF fault THEN ErrIO ELSE IF ~s.dbOpen THEN ErrDBIsClosed ELSE NoErr
        c == CachePut(s.cache, k, d)
    IN  IF e # NoErr
        THEN Outcome(CacheRemove(c, k), s.db, s, Nil, e)
        ELSE Outcome(c, [s.db EXCEPT ![k] = d], s, Nil, NoErr)

\* Unit.Get(k) called in state s, the persister read (if any) failing or not
RefGet(s, k, fault) ==
    IF CacheHas(s.cache, k)
    THEN Outcome(CacheGet(s.cache, k), s.db, s, CachePeek(s.cache, k), NoErr)
    ELSE LET e == IF fault THEN ErrIO ELSE RefLookupErr(s, k)
         IN  IF e # NoErr
             THEN Outcome(s.cache, s.db, s, Nil, e)
             ELSE Outcome(CachePut(s.cache, k, s.db[k]), s.db, s, s.db[k], NoErr)

\* Unit.Remove(k) called in state s, the persister removal failing or not
RefRemove(s, k, fault) ==
    LET e == IF fault THEN ErrIO ELSE IF ~s.dbOpen THEN ErrDBIsClosed ELSE NoErr
    IN  Outcome(CacheRemove(s.cache, k),
                IF e = NoErr THEN [s.db EXCEPT ![k] = Nil] ELSE s.db, s, Nil, e)

\* the caller's call is at position p and its result not yet taken
Running(p) == At(Caller, p) /\ call.phase = "called"

\* the state and the result at the caller's return statement
Now == Outcome(cache, db, Snapshot, th[Caller].v, th[Caller].err)


\* C11: Remove(k) takes k out of the cache before it calls the persister and
\* whatever the persister answers; it returns the persister's answer: nil
\* exactly when the persister has dropped k, an error with the persister as
\* it was; the cache is the old cache without k when Remove returns; after
\* a Remove(k) that returned nil every Get(k) returns (nil, error) and every
\* Has(k) an error until a Put(k, _) succeeds.
C11_RemoveFromBothMedia ==
    LET k == th[Caller].key
        e == th[Caller].err
    IN  /\ Running("Remove_PersisterRemove")
            => ~CacheHas(cache, k) /\ db = pre.db
        /\ Running("Remove_Return")
            => /\ cache = CacheRemove(pre.cache, k)
               /\ ~CacheHas(cache, k)
               /\ e = NoErr => pre.dbOpen /\ db = [pre.db EXCEPT ![k] = Nil]
               /\ e # NoErr => db = pre.db
               /\ ~pre.dbOpen => e # NoErr
        /\ Running("Get_Return") /\ k \in gone
            => e # NoErr /\ th[Caller].v = Nil
        /\ Running("Has_Return") /\ k \in gone
            => e # NoErr

\* a Get that reports the key missing, the key having been stored, cached
\* and then removed, and a Put of it having failed since
C11_Witness ==
    /\ Running("Get_Return") /\ th[Caller].key \in gone
    /\ th[Caller].err = ErrKeyNotFound
    /\ rolledBack /\ th[Caller].key = watch

\* C12: Has(k) asks the persister only when the cache does not hold k and
\* returns nil without asking when it does; otherwise it returns what
\* persister.Has(k) answers: nil only for a stored key, the persister's error
\* else; when Has returns, the cache (entries and their order) and the
\* persister are as they were when it was called.
C12_HasReadsOnly ==
    LET k == th[Caller].key
        e == th[Caller].err
    IN  /\ Running("Has_PersisterHas") => ~CacheHas(pre.cache, k)
        /\ OpOf(th[Caller].pc) = "Has" /\ call.phase = "called"
            => cache = pre.cache /\ db = pre.db /\ dbOpen = pre.dbOpen
        /\ Running("Has_Return") /\ CacheHas(pre.cache, k)
            => e = NoErr /\ th[Caller].ok
        /\ Running("Has_Return") /\ ~CacheHas(pre.cache, k)
            => /\ ~th[Caller].ok
               /\ e \in {ErrIO, PersisterLookupErr(k)}
               /\ e = NoErr => db[k] # Nil /\ dbOpen

\* Has answered nil for a key only the persister holds, another key being
\* cached
C12_Witness ==
    /\ Running("Has_Return")
    /\ ~th[Caller].ok /\ th[Caller].err = NoErr
    /\ cache # <<>> /\ ~CacheHas(cache, th[Caller].key)

\* C14: for every state, key, value and epoch, PutInEpoch(k, d, e) returns
\* what Put(k, d) returns and leaves the cache and the persister as Put(k, d)
\* does; likewise GetFromEpoch(k, e) and SearchFirst(k) against Get(k) and
\* RemoveFromCurrentEpoch(k) against Remove(k); GetOldestEpoch returns
\* (0, ErrOldestEpochNotAvailable) and changes nothing.
C14_EpochAliases ==
    LET failed == th[Caller].err = ErrIO
    IN  /\ Running("Put_Return") /\ call.op \in {"Put", "PutInEpoch"}
            => Now = RefPut(pre, call.key, call.data, failed)
        /\ Running("Get_Return") /\ call.op \in {"Get", "GetFromEpoch", "SearchFirst"}
            => Now = RefGet(pre, call.key, failed)
        /\ Running("Remove_Return") /\ call.op \in {"Remove", "RemoveFromCurrentEpoch"}
            => Now = RefRemove(pre, call.key, failed)
        /\ call.op = "GetOldestEpoch" /\ call.phase = "answered"
            => /\ out = [v |-> 0, err |-> ErrOldestEpochNotAvailable]
               /\ Snapshot = pre
               /\ At(Caller, "idle")

\* PutInEpoch with a non-zero epoch has stored a value over an older one
C14_Witness ==
    /\ Running("Put_Return") /\ call.op = "PutInEpoch" /\ call.epoch # 0
    /\ th[Caller].err = NoErr
    /\ pre.db[call.key] \notin {Nil, call.data}
    /\ db[call.key] = call.data

\* what the caller of Get gets: (value, error)
Result(o) == <<o.v, o.err>>

\* the caller's Put has failed in the persister and is about to return
PutFailed == Running("Put_Return") /\ call.op = "Put" /\ th[Caller].err # NoErr

\* C19 (as claimed): when Put(k, v2) returns an error of persister.Put, the
\* persister is as before the Put and, for every key j, Get(j) called after
\* the Put returns the result Get(j) called right before it would have
\* returned.
C19_FailedPutUnobservable ==
    PutFailed =>
        /\ db = pre.db
        /\ \A j \in Keys, fault \in BOOLEAN :
               Result(RefGet(Snapshot, j, fault)) = Result(RefGet(pre, j, fault))

\* C19 (amended): when Put(k, v2) returns an error of persister.Put, the
\* persister is as before the Put and, for every key j, Get(j) called after
\* the Put returns the result Get(j) called right before it would have
\* returned if the persister read it needs succeeds; a key the Put dropped
\* from the cache (k, or an entry evicted to make room) is read from the
\* persister, and when that read fails Get(j) returns (nil, the read's
\* error); Get(k) never returns v2 unless v2 was the value before.
C19_FailedPutUnobservableUnlessReadFails ==
    PutFailed =>
        /\ db = pre.db
        /\ \A j \in Keys :
               LET before == RefGet(pre, j, FALSE)
                   after == RefGet(Snapshot, j, FALSE)
                   failing == RefGet(Snapshot, j, TRUE)
               IN  /\ Result(after) = Result(before)
                   /\ after.v = call.data /\ j = call.key => pre.db[j] = call.data
                   /\ IF CacheHas(cache, j)
                      THEN /\ CacheHas(pre.cache, j)
                           /\ Result(failing) = Result(before)
                      ELSE Result(failing) = <<Nil, ErrIO>>

\* Put(k, v2) has failed, k having been stored and cached with another value:
\* the cache has lost k and the persister still holds the old value
C19_Witness ==
    /\ PutFailed
    /\ CacheHas(pre.cache, call.key)
    /\ CachePeek(pre.cache, call.key) # call.data
    /\ ~CacheHas(cache, call.key)
    /\ db[call.key] = CachePeek(pre.cache, call.key)

\* ======================================================================
\* Properties of the Unit on an LRU cache of capacity N (specification SpecLRU)
\* ======================================================================
\* the keys of cache c, least recently used first
CacheKeys(c) == [n \in 1..Len(c) |-> c[n].key]

\* C15: the cache never holds more than N entries; while the run is only
\* successful Puts of new keys, the cache holds the last N of them in the
\* order put and the persister holds them all, so after N+1 Puts the first
\* key is only in the persister; a Get of that first key then misses the
\* cache and, the persister not failing, returns the key's value, leaves it
\* in the cache as most recently used and evicts the second key put, which
\* was the least recently used.
C15_LRUEvictionAndRefill ==
    LET N == conf.capacity
        n == Len(trail)
        first == IF n > N THEN n - N + 1 ELSE 1
    IN  /\ Len(cache) <= N
        /\ trail # Off /\ call.phase = "collected"
            => /\ CacheKeys(cache) = SubSeq(trail, first, n)
               /\ \A m \in 1..n : db[trail[m]] = LRUValue(trail[m])
               /\ \A m \in 1..Len(cache) : cache[m].val = LRUValue(cache[m].key)
               /\ n = N + 1 => ~CacheHas(cache, trail[1])
        /\ Running("Get_Return") /\ trail # Off /\ th[Caller].err # ErrIO
            => /\ n = N + 1 /\ th[Caller].key = trail[1]
               /\ ~th[Caller].ok
               /\ th[Caller].err = NoErr
               /\ th[Caller].v = LRUValue(trail[1])
               /\ CacheKeys(cache) = Append(SubSeq(trail, 3, n), trail[1])
               /\ CachePeek(cache, trail[1]) = LRUValue(trail[1])
               /\ ~CacheHas(cache, trail[2])
               /\ db = pre.db

\* N = 2: after Put a, Put b, Put c the Get of a has returned and the cache
\* holds c and a
C15_Witness ==
    /\ conf.capacity = 2
    /\ Running("Get_Return") /\ trail = <<1, 2, 3>>
    /\ th[Caller].err = NoErr /\ th[Caller].v = LRUValue(1)
    /\ CacheKeys(cache) = <<3, 1>>

\* ======================================================================
\* Properties of the expiring time cache (specification SpecTime)
\* ======================================================================
\* what C16 says of Has and Sweep whatever the ttl
C16_HasAndSweep ==
    LET k == top.key IN
    /\ top.op = "Has"
        => /\ top.res = Live(ups[k], clock)
           /\ Expired(ups[k], clock) => ~top.res
           /\ \A j \in Keys : tc[j] # NoEntry \/ Live(told[j], clock) => tc[j] = told[j]
    /\ top.op = "Sweep"
        => \A j \in Keys : tc[j] = IF Expired(told[j], clock) THEN NoEntry ELSE told[j]
    /\ \A j \in Keys : Live(ups[j], clock) => tc[j] = ups[j]

\* C16 (as claimed): Has(k) is true exactly when k was last upserted less
\* than its ttl ago; a Has(k) at the instant of Upsert(k, ttl) is true; Has
\* is false once the clock is past the ttl; Has refreshes no timestamp and
\* removes no live key; Sweep removes every expired key and leaves every
\* live key with its timestamp.
C16_HasIffUpsertedWithinTTL ==
    /\ C16_HasAndSweep
    /\ top.op = "Has" /\ ups[top.key] # NoEntry /\ ups[top.key].ts = clock => top.res

\* C16 (amended): the same, a Has(k) at the instant of Upsert(k, ttl) being
\* true when ttl > 0 (with ttl = 0 the key is expired as soon as upserted).
C16_HasIffUpsertedWithinPositiveTTL ==
    /\ C16_HasAndSweep
    /\ top.op = "Has" /\ ups[top.key] # NoEntry /\ ups[top.key].ts = clock
         => top.res = (ups[top.key].ttl > 0)

\* Has finds a key live that was upserted a second time after its first
\* ttl had run out
C16_Witness ==
    /\ top.op = "Has" /\ top.res
    /\ clock = MaxClock
    /\ ups[top.key].ts > 0 /\ ups[top.key].ts < clock
    /\ \E j \in Keys : told[j] # NoEntry /\ Expired(told[j], clock)

\* ======================================================================
\* Properties of the peer time cache (specification SpecPeer)
\* ======================================================================
\* the calls made on the peer time cache itself, the constructor's left out
IsMethodCall(made) == made.m # "NewPeerTimeCache"
MethodCalls == SelectSeq(pcall, IsMethodCall)

\* C17: NewPeerTimeCache(nil) returns (nil, ErrNilTimeCache) and with a time
\* cache it returns a peer time cache and a nil error; every Upsert(pid,
\* span), Has(pid) and Sweep() on it reaches the wrapped time cache exactly
\* once, as the same method with the key string(pid) and the same span, and
\* returns what the wrapped time cache answered.
C17_PeerTimeCacheForwards ==
    /\ Len(plog) = Len(MethodCalls)
    /\ \A n \in 1..Len(MethodCalls) :
        /\ n <= Len(plog)
        /\ plog[n].m = MethodCalls[n].m
        /\ plog[n].span = MethodCalls[n].span
        /\ plog[n].key = IF MethodCalls[n].m = "Sweep" THEN "" ELSE MethodCalls[n].pid.peerID
    /\ pcall # <<>> =>
        LET last == pcall[Len(pcall)]
        IN  /\ last.m = "NewPeerTimeCache"
                => IF last.tcNil THEN ptc = "nil" /\ pout = ErrNilTimeCache
                                 ELSE ptc = "built" /\ pout = "nil"
            /\ last.m # "NewPeerTimeCache"
                => ptc = "built" /\ plog # <<>> /\ pout = plog[Len(plog)].r
            /\ last.m = "Upsert" /\ last.pid = TestPid => pout = "nil" /\ pflags.updateWasCalled
            /\ last.m = "Has" /\ last.pid = TestPid => pout = "true" /\ pflags.hasWasCalled
            /\ last.m = "Sweep" => pflags.sweepWasCalled

\* a peer time cache was built, Has for the test's peer was forwarded and
\* then an Upsert for another peer returned the stub's error
C17_Witness ==
    /\ Len(pcall) = 3 /\ Len(plog) = 2
    /\ pflags.hasWasCalled
    /\ pcall[3].m = "Upsert" /\ pcall[3].pid # TestPid
    /\ pout = unexpectedErr

\* ======================================================================
\* Properties of GetBulkFromEpoch (specification SpecBulk)
\* ======================================================================
RECURSIVE Succeeded(_, _)
\* the pairs (key, value) of the keys whose Get returned no error, in order
Succeeded(ks, gs) ==
    IF ks = <<>> \/ gs = <<>> THEN <<>>
    ELSE LET rest == Succeeded(Tail(ks), Tail(gs))
         IN  IF Head(gs).err = NoErr
             THEN <<KeyValuePair(Head(ks), Head(gs).v)>> \o rest
             ELSE rest

\* C20: GetBulkFromEpoch(keys, e) returns a nil error and, for the keys whose
\* u.Get returned no error and only for them, the pair (key, value got), in
\* input order; each of its Gets leaves the cache and the persister as
\* Unit.Get(key) called in the state it found does and returns that Get's
\* result; the caller holds the lock only inside a Get, never between two
\* keys.
C20_BulkIsGetPerKey ==
    /\ bulk.phase # "none" =>
        /\ Len(bulk.got) = bulk.idx - 1
        /\ bulk.idx <= Len(bulk.keys) + 1
        /\ bulk.results = Succeeded(bulk.keys, bulk.got)
        /\ \A n \in 1..Len(bulk.got) :
              bulk.got[n].err # NoErr => bulk.got[n].v = Nil
    /\ bulk.phase = "returned" =>
        /\ bulk.err = NoErr
        /\ Len(bulk.got) = Len(bulk.keys)
        /\ At(Caller, "idle")
    /\ bulk.phase = "getting" /\ At(Caller, "Get_Return") =>
        Now = RefGet(pre, bulk.keys[bulk.idx], th[Caller].err = ErrIO)
    /\ bulk.phase # "none" /\ At(Caller, "idle") => lockW # Caller

\* GetBulkFromEpoch(<<k, k>>, e) has returned one pair: its first Get did not
\* find k, the other goroutine's Put(k, v) took effect, and its second Get
\* returned v
C20_Witness ==
    /\ bulk.phase = "returned"
    /\ Len(bulk.keys) = 2 /\ bulk.keys[1] = bulk.keys[2]
    /\ bulk.got[1].err = ErrKeyNotFound
    /\ bulk.got[2].err = NoErr
    /\ bulk.results = <<KeyValuePair(bulk.keys[2], bulk.got[2].v)>>

====
